---- MODULE Spec2Model ----
(***************************************************************************)
(* Model of the walkie-talkie voice assistant backend: the session object  *)
(* VoiceAssistant (src/agent.py) driven by the HTTP handlers of            *)
(* src/server.py.  Every handler is "async def" without an await between   *)
(* its reads and writes of the session, so a handler is one atomic step.   *)
(***************************************************************************)
EXTENDS Integers, Sequences, FiniteSets, TLC

\* ------------------------------------------------------------------ bounds
\* Number of POST /api/process requests in a behaviour.
MaxRequests == 2
\* Number of POST /api/process requests in a behaviour of SpecLong.
MaxTurns == 6

\* ------------------------------------------------------- program constants
DefaultMemorySize == 5
MinCustomSize == 1
MaxCustomSize == 100
HistoryFactor == 2
PresetSizes == {5, 10, 20}

\* --------------------------------------------------------------- inputs
\* Sizes a client may post: both sides of every bound the handler tests.
SizeInputs == {0, 1, 2, 5, 10, 20, 100, 101}
\* api_key of a MemorySizeRequest: absent (None), empty, or a key.
None == "None"
ApiKeyInputs == {None, "", "sk-user"}
\* Transcripts the speech-to-text service may return, as character sequences.
Whitespace == {" ", "\t", "\n"}
Transcripts == {<< >>, <<" ">>, <<"a">>, <<" ", "b">>}
\* Replies the language model may return.
Replies == {"ok"}
\* Where a process request may fail: nowhere, or in one of its calls.
FailPoints == {"none", "transcribe", "llm", "tts"}

VARIABLES
    memory_size,            \* VoiceAssistant.memory_size
    is_custom,              \* VoiceAssistant.is_custom
    custom_openai_client,   \* key of the custom client, or None
    use_context,            \* VoiceAssistant.use_context
    conversations,          \* VoiceAssistant.conversations
    conversation_history,   \* VoiceAssistant.conversation_history
    files,                  \* paths present in AUDIO_DIR
    now,                    \* last reading of time.time() * 1000
    n_requests,             \* process requests received so far
    response                \* what the last request did and returned

vars == <<memory_size, is_custom, custom_openai_client, use_context,
          conversations, conversation_history, files, now, n_requests,
          response>>

\* ------------------------------------------------------------- helpers
Min(a, b) == IF a <= b THEN a ELSE b

\* s[-k:] of Python for k >= 1.
LastK(s, k) == IF Len(s) <= k THEN s ELSE SubSeq(s, Len(s) - k + 1, Len(s))

\* str.strip(): drop leading and trailing whitespace.
RECURSIVE LStrip(_)
LStrip(s) == IF s # << >> /\ Head(s) \in Whitespace THEN LStrip(Tail(s)) ELSE s

RECURSIVE RStrip(_)
RStrip(s) ==
    IF s # << >> /\ s[Len(s)] \in Whitespace
    THEN RStrip(SubSeq(s, 1, Len(s) - 1))
    ELSE s

\* A strip that only drops newlines ("strip('\n')").
Strip_NewlinesOnly(s) ==
    IF s # << >> /\ \A i \in 1..Len(s) : s[i] = "\n" THEN << >> ELSE s

Strip(s) == RStrip(LStrip(s))

input_path(ts) == "input_" \o ToString(ts) \o ".wav"
output_path(ts) == "output_" \o ToString(ts) \o ".mp3"

SystemMessage == [role |-> "system", content |-> <<"prompt">>]
UserMessage(text) == [role |-> "user", content |-> text]
AssistantMessage(reply) == [role |-> "assistant", content |-> <<reply>>]

\* ---------------------------------------------------- VoiceAssistant
\* A trim that stops one turn early ("while len > size + 1").
RECURSIVE TrimWindow_StopsEarly(_, _)
TrimWindow_StopsEarly(convs, size) ==
    IF Len(convs) > size + 1 THEN TrimWindow_StopsEarly(Tail(convs), size)
    ELSE convs

\* A trim that pops the newest turn ("pop()" for "pop(0)").
RECURSIVE TrimWindow_PopsNewest(_, _)
TrimWindow_PopsNewest(convs, size) ==
    IF Len(convs) > size
    THEN TrimWindow_PopsNewest(SubSeq(convs, 1, Len(convs) - 1), size)
    ELSE convs

\* The while loop of _trim_conversations: pop(0) while over the limit.
RECURSIVE TrimWindow(_, _)
TrimWindow(convs, size) ==
    IF Len(convs) > size THEN TrimWindow(Tail(convs), size) ELSE convs

\* A loop that removes the input audio of a popped turn and not its output.
RECURSIVE TrimRemoved_InputOnly(_, _)
TrimRemoved_InputOnly(convs, size) ==
    IF Len(convs) > size
    THEN {Head(convs).input_audio} \cup TrimRemoved_InputOnly(Tail(convs), size)
    ELSE {}

\* The files the loop removes: both audio files of every popped turn.
RECURSIVE TrimRemoved(_, _)
TrimRemoved(convs, size) ==
    IF Len(convs) > size
    THEN {Head(convs).input_audio, Head(convs).output_audio}
             \cup TrimRemoved(Tail(convs), size)
    ELSE {}

\* A trim that keeps the oldest entries ("[:max_messages]").
TrimHistory_KeepsOldest(hist, size) ==
    LET max_messages == size * HistoryFactor
    IN  IF Len(hist) > max_messages THEN SubSeq(hist, 1, max_messages) ELSE hist

\* A trim that allows one entry per turn ("max_messages = memory_size").
TrimHistory_OnePerTurn(hist, size) ==
    LET max_messages == size
    IN  IF Len(hist) > max_messages THEN LastK(hist, max_messages) ELSE hist

\* The trim of conversation_history, in _trim_conversations and get_ai_response.
TrimHistory(hist, size) ==
    LET max_messages == size * HistoryFactor
    IN  IF Len(hist) > max_messages THEN LastK(hist, max_messages) ELSE hist

\* A renumbering that leaves every id as it is.
Renumber_Skips(convs) == convs

\* _renumber_conversations
Renumber(convs) == [i \in 1..Len(convs) |-> [convs[i] EXCEPT !.id = i]]

\* Messages that carry the history whatever use_context says.
BuildMessages_AlwaysContext(text) ==
    <<SystemMessage>> \o conversation_history \o <<UserMessage(text)>>

\* messages built by get_ai_response
BuildMessages(text) ==
    <<SystemMessage>>
        \o (IF use_context THEN conversation_history ELSE << >>)
        \o <<UserMessage(text)>>

\* A history that records a turn only while context mode is on.
RecordReply_OnlyWithContext(hist, text, reply) ==
    IF use_context
    THEN hist \o <<UserMessage(text), AssistantMessage(reply)>>
    ELSE hist

\* get_ai_response after the reply: "Always add to history".
RecordReply(hist, text, reply) ==
    hist \o <<UserMessage(text), AssistantMessage(reply)>>

\* The client after set_memory_size: "if api_key:" is false for None and "".
NewClient(client, custom, api_key) ==
    IF api_key # None /\ api_key # "" THEN api_key
    ELSE IF ~custom THEN None
    ELSE client

\* VoiceAssistant.set_memory_size, called with the session's client being `client`
AgentSetMemorySize(client, size, custom, api_key) ==
    /\ memory_size' = size
    /\ is_custom' = custom
    /\ custom_openai_client' = NewClient(client, custom, api_key)
    /\ conversations' = TrimWindow(conversations, size)
    /\ files' = files \ TrimRemoved(conversations, size)
    /\ conversation_history' = TrimHistory(conversation_history, size)

get_stats == [count |-> Len(conversations), limit |-> memory_size]

get_settings ==
    [memory_size |-> memory_size, use_context |-> use_context,
     is_custom |-> is_custom]

\* What a request did: the handler, the HTTP status, the downstream calls made
\* in order, the messages of the LLM call (if one was made) and the JSON body.
Resp(op, status, body) ==
    [op |-> op, status |-> status, calls |-> << >>, messages |-> << >>,
     body |-> body]

\* ------------------------------------------------------------ Init
Init ==
    /\ memory_size = DefaultMemorySize
    /\ is_custom = FALSE
    /\ custom_openai_client = None
    /\ use_context = FALSE
    /\ conversations = << >>
    /\ conversation_history = << >>
    /\ files = {}
    /\ now = 0
    /\ n_requests = 0
    /\ response = Resp("start", 200, "ok")

\* ------------------------------------------------------ HTTP handlers
\* POST /api/settings
update_settings ==
    \E flag \in BOOLEAN :
        /\ use_context' = flag
        /\ response' = Resp("settings", 200, [use_context |-> flag])
        /\ UNCHANGED <<memory_size, is_custom, custom_openai_client,
                       conversations, conversation_history, files, now,
                       n_requests>>

\* A validation whose lower bound is off by one ("size < 0").
ValidSize_AcceptsZero(size, custom) ==
    IF custom
    THEN ~(size < MinCustomSize - 1 \/ size > MaxCustomSize)
    ELSE size \in PresetSizes

\* The validation of POST /api/memory-size.
ValidSize(size, custom) ==
    IF custom
    THEN ~(size < MinCustomSize \/ size > MaxCustomSize)
    ELSE size \in PresetSizes

\* The detail of the HTTPException a refused size raises.
SizeError(custom) ==
    IF custom THEN "Custom size must be between 1 and 100"
    ELSE "Memory size must be 5, 10, or 20"

\* POST /api/memory-size with the body {size, is_custom, api_key}
SetMemorySize(size, custom, api_key) ==
    /\ IF ValidSize(size, custom)
       THEN /\ AgentSetMemorySize(custom_openai_client, size, custom, api_key)
            /\ response' = Resp("memory-size", 200,
                                 [memory_size |-> size, is_custom |-> custom])
       ELSE /\ response' = Resp("memory-size", 400, SizeError(custom))
            /\ UNCHANGED <<memory_size, is_custom, custom_openai_client,
                           conversations, conversation_history, files>>
    /\ UNCHANGED <<use_context, now, n_requests>>

set_memory_size ==
    \E size \in SizeInputs, custom \in BOOLEAN, api_key \in ApiKeyInputs :
        SetMemorySize(size, custom, api_key)

\* A handler that calls VoiceAssistant.reset_custom_key() and nothing else.
reset_custom_key_KeepsSize ==
    /\ custom_openai_client' = None
    /\ is_custom' = FALSE
    /\ response' = Resp("reset-custom-key", 200, "ok")
    /\ UNCHANGED <<memory_size, use_context, conversations,
                   conversation_history, files, now, n_requests>>

\* A handler that calls VoiceAssistant.reset_custom_key() and then only sets
\* memory_size, without the trim that set_memory_size ends with.
reset_custom_key_SkipsTrim ==
    /\ custom_openai_client' = None
    /\ is_custom' = FALSE
    /\ memory_size' = DefaultMemorySize
    /\ response' = Resp("reset-custom-key", 200, "ok")
    /\ UNCHANGED <<use_context, conversations, conversation_history, files,
                   now, n_requests>>

\* POST /api/reset-custom-key: VoiceAssistant.reset_custom_key() sets the client
\* to None and is_custom to False, then set_memory_size(5, False, None) runs
\* from that state.
reset_custom_key ==
    /\ AgentSetMemorySize(None, DefaultMemorySize, FALSE, None)
    /\ response' = Resp("reset-custom-key", 200, "ok")
    /\ UNCHANGED <<use_context, now, n_requests>>

\* A clear_all that empties the lists and leaves AUDIO_DIR as it is.
clear_conversations_KeepsFiles ==
    /\ conversation_history' = << >>
    /\ conversations' = << >>
    /\ response' = Resp("clear", 200, "ok")
    /\ UNCHANGED <<memory_size, is_custom, custom_openai_client, use_context,
                   files, now, n_requests>>

\* POST /api/clear: clear_all() empties both lists and recreates AUDIO_DIR.
clear_conversations ==
    /\ conversation_history' = << >>
    /\ conversations' = << >>
    /\ files' = {}
    /\ response' = Resp("clear", 200, "ok")
    /\ UNCHANGED <<memory_size, is_custom, custom_openai_client, use_context,
                   now, n_requests>>

\* The turn of conversation_data that a caller holds after the trim and the
\* renumbering: the dict is the object stored in the list, so it is renumbered
\* with the list if the trim kept it.
Returned(data, convs) ==
    IF \E i \in 1..Len(convs) : convs[i].turn = data.turn
    THEN LET i == CHOOSE j \in 1..Len(convs) : convs[j].turn = data.turn
         IN  Renumber(convs)[i]
    ELSE data

\* Calls in which a failed call is made a second time before giving up.
CallsUpTo_Retries(fail, blank) ==
    IF fail = "transcribe" THEN <<"transcribe", "transcribe">>
    ELSE IF blank THEN <<"transcribe">>
    ELSE IF fail = "llm" THEN <<"transcribe", "llm", "llm">>
    ELSE IF fail = "tts" THEN <<"transcribe", "llm", "tts", "tts">>
    ELSE <<"transcribe", "llm", "tts">>

\* The downstream calls a process request makes before it stops at `fail`.
CallsUpTo(fail, blank) ==
    IF fail = "transcribe" \/ blank THEN <<"transcribe">>
    ELSE IF fail = "llm" THEN <<"transcribe", "llm">>
    ELSE <<"transcribe", "llm", "tts">>

\* POST /api/process: process_audio, which runs process_conversation.
\*   ts         the clock reading, the same millisecond as the last or the next
\*   transcript what transcribe_audio returns, reply what the LLM returns
\*   fail       the downstream call that raises, if any
ProcessAudio(ts, transcript, reply, fail) ==
        LET conversation_id == Len(conversations) + 1
            blank == Strip(transcript) = << >>
            in_path == input_path(ts)
            out_path == output_path(ts)
            messages == BuildMessages(transcript)
            appended == RecordReply(conversation_history, transcript, reply)
            history == TrimHistory(appended, memory_size)
            conversation_data ==
                [id |-> conversation_id, user_text |-> transcript,
                 ai_text |-> reply, input_audio |-> in_path,
                 output_audio |-> out_path, turn |-> n_requests + 1]
            window == Append(conversations, conversation_data)
            trimmed == TrimWindow(window, memory_size)
            calls == CallsUpTo(fail, blank)
        IN
        /\ n_requests' = n_requests + 1
        /\ now' = ts
        /\ UNCHANGED <<memory_size, is_custom, custom_openai_client, use_context>>
        /\ CASE fail = "transcribe" ->
                   /\ files' = files \cup {in_path}
                   /\ response' = [Resp("process", 500, "detail")
                                       EXCEPT !.calls = calls]
                   /\ UNCHANGED <<conversations, conversation_history>>
             [] fail # "transcribe" /\ blank ->
                   \* os.remove(input_path); return {"error": ...}
                   /\ files' = (files \cup {in_path}) \ {in_path}
                   /\ response' = [Resp("process", 400,
                                        [error |-> "No speech detected"])
                                       EXCEPT !.calls = calls]
                   /\ UNCHANGED <<conversations, conversation_history>>
             [] fail = "llm" /\ ~blank ->
                   \* create() raises before the history is appended to
                   /\ files' = files \cup {in_path}
                   /\ response' = [Resp("process", 500, "detail")
                                       EXCEPT !.calls = calls,
                                              !.messages = messages]
                   /\ UNCHANGED <<conversations, conversation_history>>
             [] fail = "tts" /\ ~blank ->
                   /\ files' = files \cup {in_path}
                   /\ conversation_history' = history
                   /\ response' = [Resp("process", 500, "detail")
                                       EXCEPT !.calls = calls,
                                              !.messages = messages]
                   /\ UNCHANGED conversations
             [] fail = "none" /\ ~blank ->
                   /\ files' = (files \cup {in_path, out_path})
                                   \ TrimRemoved(window, memory_size)
                   /\ conversation_history' = TrimHistory(history, memory_size)
                   /\ conversations' = Renumber(trimmed)
                   /\ response' = [Resp("process", 200,
                                        Returned(conversation_data, trimmed))
                                       EXCEPT !.calls = calls,
                                              !.messages = messages]

process_audio ==
    /\ n_requests < MaxRequests
    /\ \E ts \in {now, now + 1}, transcript \in Transcripts,
          reply \in Replies, fail \in FailPoints :
           ProcessAudio(ts, transcript, reply, fail)

Next ==
    \/ process_audio
    \/ update_settings
    \/ set_memory_size
    \/ reset_custom_key
    \/ clear_conversations

Spec == Init /\ [][Next]_vars

\* -------------------------------------------------------- long sessions
\* Sessions long enough to overfill the default window of 5: every process
\* request comes at a later millisecond than the one before and gets a reply
\* of the LLM to a spoken clip (text-to-speech may still fail), and the sizes
\* posted are the default and one custom size above it.
LongSizes == {DefaultMemorySize, MaxTurns}
LongKeys == {None, "sk-user"}
Spoken == {t \in Transcripts : Strip(t) # << >>}
LongFails == {"none", "tts"}

process_turn ==
    /\ n_requests < MaxTurns
    /\ \E transcript \in Spoken, reply \in Replies, fail \in LongFails :
           ProcessAudio(now + 1, transcript, reply, fail)

resize_memory ==
    \E size \in LongSizes, custom \in BOOLEAN, api_key \in LongKeys :
        SetMemorySize(size, custom, api_key)

NextLong ==
    \/ process_turn
    \/ resize_memory
    \/ update_settings
    \/ reset_custom_key
    \/ clear_conversations

SpecLong == Init /\ [][NextLong]_vars
\* ================================================================ claims
\* The turns of a window without their ids, which renumbering rewrites.
Unnumbered(convs) == [i \in 1..Len(convs) |-> [convs[i] EXCEPT !.id = 0]]

\* The window a step trims: the old window, with the new turn appended when the
\* step is a process request that got as far as appending one.
Offered ==
    IF response'.op = "process" /\ response'.status = 200
    THEN Append(Unnumbered(conversations),
                [response'.body EXCEPT !.id = 0])
    ELSE Unnumbered(conversations)

\* A step that trims the window: a completed process, memory-size or
\* reset-custom-key request.
TrimmingStep ==
    /\ response'.op \in {"process", "memory-size", "reset-custom-key"}
    /\ response'.status = 200

\* C1: after any sequence of requests the window holds at most memory_size
\* turns: the stats always report count <= limit.
C1_WindowWithinLimit == get_stats.count <= get_stats.limit

\* C1 witness: the second turn was processed with the window full at size 1.
C1_Witness ==
    /\ response.op = "process" /\ response.status = 200
    /\ n_requests = 2 /\ memory_size = 1
    /\ Len(conversations) = 1 /\ conversations[1].turn = 2

\* C2: eviction is oldest-first: after a step that trims the window, the window
\* holds the most recent min(count, memory size) of the turns offered to it, in
\* their creation order, so the turns removed are the earliest-created ones.
C2_EvictsOldestFirst ==
    [][TrimmingStep =>
          Unnumbered(conversations') =
              LastK(Offered, Min(Len(Offered), memory_size'))]_vars

\* C2 witness: a memory-size request evicted the first of two turns.
C2_Witness ==
    /\ response.op = "memory-size" /\ response.status = 200
    /\ n_requests = 2 /\ memory_size = 1
    /\ Len(conversations) = 1 /\ conversations[1].turn = 2
    /\ Len(conversation_history) = 2
\* A trimming step that removed at least one turn.
EvictingStep == TrimmingStep /\ Len(conversations') < Len(Offered)

\* C3: after every operation that evicts turns, the ids of the turns left in
\* the window, read in window order, are exactly 1, 2, ..., N.
C3_IdsDenseAfterEviction ==
    [][EvictingStep =>
          \A i \in 1..Len(conversations') : conversations'[i].id = i]_vars

\* C4: a clear-all request empties the window, the message history and the
\* audio directory, and leaves memory size, custom flag, context flag and key
\* override as they were.
C4_ClearEmptiesEverything ==
    [][response'.op = "clear" =>
          /\ conversations' = << >>
          /\ conversation_history' = << >>
          /\ files' = {}
          /\ UNCHANGED <<memory_size, is_custom, use_context,
                         custom_openai_client>>]_vars

\* C4 witness: a clear was served after two process requests, under settings
\* that differ from the initial ones.
C4_Witness ==
    /\ response.op = "clear" /\ response.status = 200
    /\ n_requests = 2
    /\ memory_size = 2 /\ is_custom /\ use_context
    /\ custom_openai_client = "sk-user"
    /\ conversations = << >> /\ conversation_history = << >> /\ files = {}

\* What the specification says a bad size is.
BadSize(size, custom) ==
    \/ custom /\ size \notin 1..100
    \/ ~custom /\ size \notin {5, 10, 20}

\* A memory-size step that answered 400 and changed nothing of the session.
RejectedUnchanged ==
    /\ response'.status = 400
    /\ UNCHANGED <<memory_size, is_custom, custom_openai_client,
                   conversations, conversation_history, files>>

\* C5: a memory-size request with a custom size outside 1..100, or a preset
\* size other than 5, 10, 20, is answered 400 and leaves memory size, custom
\* flag, key override, window, message history and audio files unchanged:
\* a step that is not such a rejection is the step of no bad request.
C5_BadSizeRejected ==
    [][response'.op = "memory-size" =>
          \/ RejectedUnchanged
          \/ \A size \in SizeInputs, custom \in BOOLEAN :
                 BadSize(size, custom) =>
                     \A api_key \in ApiKeyInputs :
                         ~SetMemorySize(size, custom, api_key)]_vars

\* C5 witness: a request was refused while the session held turns, files and a
\* key override.
C5_Witness ==
    /\ response.op = "memory-size" /\ response.status = 400
    /\ conversations # << >> /\ files # {}
    /\ custom_openai_client = "sk-user" /\ memory_size = 100
\* A process request whose LLM call was made.
LlmCalled == response'.op = "process" /\ Len(response'.calls) >= 2

\* C6: with context mode disabled the messages sent to the LLM are the system
\* prompt and the current user text alone; with it enabled they are the system
\* prompt, the stored message history, then the current user text, and the
\* prior messages included number at most 2 x memory size.
C6_ContextModeDecidesMessages ==
    [][LlmCalled =>
          \A ts \in {now, now + 1}, transcript \in Transcripts,
             reply \in Replies, fail \in FailPoints :
              ProcessAudio(ts, transcript, reply, fail) =>
                  LET m == response'.messages
                      prior == SubSeq(m, 2, Len(m) - 1)
                  IN  /\ Len(m) >= 2
                      /\ m[1] = SystemMessage
                      /\ m[Len(m)] = [role |-> "user", content |-> transcript]
                      /\ prior = (IF use_context THEN conversation_history
                                  ELSE << >>)
                      /\ Len(prior) <= 2 * memory_size]_vars

\* C6 witness: a turn was processed with context enabled and a stored history
\* of one earlier turn.
C6_Witness ==
    /\ response.op = "process" /\ response.status = 200
    /\ use_context
    /\ Len(response.messages) = 4
    /\ response.messages[2].role = "user"
    /\ response.messages[3].role = "assistant"

\* The entries a step offers to the history: the old history, with the user
\* message of the LLM call and the reply appended when the LLM replied.
OfferedHistory(reply) ==
    IF response'.op = "process" /\ Len(response'.calls) = 3
    THEN conversation_history
             \o <<response'.messages[Len(response'.messages)],
                  [role |-> "assistant", content |-> <<reply>>]>>
    ELSE conversation_history

\* C7: the message history holds at most 2 x memory size entries, and a step
\* that trims it (after an LLM reply or a memory-size change) keeps the most
\* recent entries in their order.
C7_HistoryBounded ==
    /\ [](Len(conversation_history) <= 2 * memory_size)
    /\ [][response'.op # "clear" =>
             \E reply \in Replies :
                 LET offered == OfferedHistory(reply)
                 IN  conversation_history' =
                         LastK(offered, Min(Len(offered), 2 * memory_size'))]_vars

\* C7 witness: at memory size 1 a second reply arrived, so four entries were
\* cut to the two newest.
C7_Witness ==
    /\ response.op = "process" /\ Len(response.calls) = 3
    /\ memory_size = 1 /\ use_context
    /\ Len(response.messages) = 4
    /\ Len(conversation_history) = 2
    /\ conversation_history[1] = response.messages[4]
    /\ conversation_history[1] # response.messages[2]
\* A transcript that is empty or whitespace-only.
NoSpeech(transcript) == \A i \in 1..Len(transcript) : transcript[i] \in Whitespace

\* C8: when transcription yields an empty or whitespace-only transcript, the
\* process request answers 400 "No speech detected", deletes the input file
\* it wrote, calls neither the LLM nor text-to-speech, and leaves the window,
\* the message history and every other audio file unchanged.
C8_NoSpeechRejected ==
    [][response'.op = "process" =>
          \A ts \in {now, now + 1}, transcript \in Transcripts,
             reply \in Replies, fail \in FailPoints :
              /\ NoSpeech(transcript) /\ fail # "transcribe"
              /\ ProcessAudio(ts, transcript, reply, fail)
              =>  /\ response'.status = 400
                  /\ response'.body = [error |-> "No speech detected"]
                  /\ input_path(ts) \notin files'
                  /\ files' \ {input_path(ts)} = files \ {input_path(ts)}
                  /\ response'.calls = <<"transcribe">>
                  /\ UNCHANGED <<conversations, conversation_history>>]_vars

\* C8 witness: a clip without speech was refused while the session held a
\* turn and its files.
C8_Witness ==
    /\ response.op = "process" /\ response.status = 400
    /\ response.calls = <<"transcribe">>
    /\ Len(conversations) = 1 /\ Len(conversation_history) = 2
    /\ Cardinality(files) = 2

\* C9: when a downstream call (transcription, LLM, text-to-speech) fails, the
\* request ends in a 500, no call was made twice (the failed call is the last
\* one made), and no turn is appended to or evicted from the window.
C9_ServiceFailureIs500 ==
    [][response'.op = "process" =>
          \A ts \in {now, now + 1}, transcript \in Transcripts,
             reply \in Replies, fail \in FailPoints :
              /\ fail # "none"
              /\ fail = "transcribe" \/ ~NoSpeech(transcript)
              /\ ProcessAudio(ts, transcript, reply, fail)
              =>  LET calls == response'.calls
                  IN  /\ response'.status = 500
                      /\ calls # << >> /\ calls[Len(calls)] = fail
                      /\ \A i, j \in 1..Len(calls) :
                             calls[i] = calls[j] => i = j
                      /\ UNCHANGED conversations]_vars

\* C9 witness: text-to-speech failed after the LLM replied, with a turn in
\* the window.
C9_Witness ==
    /\ response.op = "process" /\ response.status = 500
    /\ response.calls = <<"transcribe", "llm", "tts">>
    /\ Len(conversations) = 1 /\ memory_size = 1

\* C10: the memory size is always in 1..100, and is one of 5, 10, 20 whenever
\* the custom-size flag is false.
C10_MemorySizeInRange ==
    /\ memory_size \in 1..100
    /\ ~is_custom => memory_size \in {5, 10, 20}

\* C10 witness: a reset-custom-key request was served after a custom size had
\* been set and a turn processed.
C10_Witness ==
    /\ response.op = "reset-custom-key"
    /\ ~is_custom /\ memory_size = 5
    /\ Len(conversation_history) = 2 /\ Len(conversations) = 1
    /\ n_requests = 2
\* The turns a step evicts: the oldest of the offered window, as many as the
\* window shrank by.
Evicted == SubSeq(Offered, 1, Len(Offered) - Len(conversations'))

\* The files on disk when the trim of a step starts: those present before,
\* with the two files a completed process request has written.
FilesAtTrim ==
    IF response'.op = "process" /\ response'.status = 200
    THEN files \cup {response'.body.input_audio, response'.body.output_audio}
    ELSE files

\* C11: when a turn is evicted by the window limit, its input and its output
\* audio file are gone from disk afterwards, and the audio files of every turn
\* that stays in the window are left on disk.
C11_EvictionDeletesEvictedFilesOnly ==
    [][EvictingStep =>
          /\ \A i \in 1..Len(Evicted) :
                 /\ Evicted[i].input_audio \notin files'
                 /\ Evicted[i].output_audio \notin files'
          /\ \A i \in 1..Len(conversations') :
                 /\ conversations'[i].input_audio \in FilesAtTrim
                        => conversations'[i].input_audio \in files'
                 /\ conversations'[i].output_audio \in FilesAtTrim
                        => conversations'[i].output_audio \in files']_vars

\* C12: any two distinct turns that are in the window together have different
\* input audio paths and different output audio paths.
C12_PathsDistinct ==
    \A i, j \in 1..Len(conversations) :
        i # j =>
            /\ conversations[i].input_audio # conversations[j].input_audio
            /\ conversations[i].output_audio # conversations[j].output_audio
\* C13: after a reset-custom-key request no key override is in effect, the
\* custom-size flag is false, the memory size is 5, the window holds the (at
\* most) 5 most recent turns and the message history the (at most) 10 most
\* recent entries; the context flag is unchanged.
C13_ResetRestoresDefaults ==
    [][response'.op = "reset-custom-key" =>
          /\ custom_openai_client' = None
          /\ ~is_custom'
          /\ memory_size' = 5
          /\ conversations' = LastK(conversations, 5)
          /\ conversation_history' = LastK(conversation_history, 10)
          /\ use_context' = use_context]_vars

\* C13 witness: a reset was served with six turns created and context mode
\* on; the window holds the five newest turns, the last of them the sixth,
\* and the history their ten entries.
C13_Witness ==
    /\ response.op = "reset-custom-key"
    /\ n_requests = 6 /\ use_context
    /\ Len(conversations) = 5
    /\ conversations[1].turn = 2 /\ conversations[5].turn = 6
    /\ Len(conversation_history) = 10
\* The last two entries of a history.
LastPair(hist) == LastK(hist, 2)

C15_ReturnedTurnIsLast ==
    [][response'.op = "process" /\ response'.status = 200 =>
          /\ conversations' # << >>
          /\ response'.body = conversations'[Len(conversations')]
          /\ response'.body.id = Len(conversations')
          /\ response'.body.id = Min(Len(conversations) + 1, memory_size)]_vars

\* C15 witness: the second turn was returned with id 1 after it pushed the
\* first turn out of a window of size 1.
C15_Witness ==
    /\ response.op = "process" /\ response.status = 200
    /\ memory_size = 1 /\ Len(conversations) = 1
    /\ response.body.turn = 2 /\ response.body.id = 1
    /\ response.body = conversations[1]
\* C16: whenever is_custom is false no API key override is in effect.
C16_NoKeyWithoutCustom == ~is_custom => custom_openai_client = None

\* The user text / assistant text pairs of the turns of a window, in order.
RECURSIVE Pairs(_)
Pairs(convs) ==
    IF convs = << >> THEN << >>
    ELSE <<[role |-> "user", content |-> Head(convs).user_text],
           [role |-> "assistant", content |-> <<Head(convs).ai_text>>]>>
             \o Pairs(Tail(convs))

\* The message history is the pairs of the turns in the window.
Mirrored(hist, convs) == hist = Pairs(convs)

\* C17 as stated: after any sequence of requests, failed ones included, the
\* message history is exactly the pairs of the turns in the window, so its
\* length is 2 x the window length.
C17_HistoryMirrorsWindow ==
    /\ Mirrored(conversation_history, conversations)
    /\ Len(conversation_history) = 2 * Len(conversations)

\* A process request that failed after the LLM had replied.
FailedAfterReply ==
    /\ response'.op = "process"
    /\ response'.status = 500
    /\ Len(response'.calls) = 3

\* C17 amended: the history mirrors the window initially and after a clear,
\* and every request keeps it mirroring the window except a process request
\* that fails after the LLM replied, whose pair stays in the history.
C17_MirroredUnlessFailedAfterReply ==
    /\ Mirrored(conversation_history, conversations)
    /\ [][/\ response'.op = "clear" =>
                 Mirrored(conversation_history', conversations')
          /\ Mirrored(conversation_history, conversations) /\ ~FailedAfterReply
                 => /\ Mirrored(conversation_history', conversations')
                    /\ Len(conversation_history') = 2 * Len(conversations')
          /\ Mirrored(conversation_history, conversations) /\ FailedAfterReply
                 => /\ conversations' = conversations
                    /\ \E reply \in Replies :
                           conversation_history' =
                               LastK(OfferedHistory(reply),
                                     Min(Len(OfferedHistory(reply)),
                                         2 * memory_size))]_vars

\* C17 witness: after two completed turns at memory size 1 the window holds
\* the second turn and the history its pair and nothing else.
C17_Witness ==
    /\ response.op = "process" /\ response.status = 200
    /\ memory_size = 1 /\ n_requests = 2
    /\ Len(conversations) = 1 /\ conversations[1].turn = 2
    /\ conversation_history = Pairs(conversations)

\* The audio paths of the turns in a window.
WindowPaths(convs) ==
    {convs[i].input_audio : i \in 1..Len(convs)}
        \cup {convs[i].output_audio : i \in 1..Len(convs)}

\* The audio files on disk that belong to no turn of the window.
Orphans(fs, convs) == fs \ WindowPaths(convs)

\* C18 as stated: every audio file on disk is the input or output audio of a
\* turn in the window, also after a process request in which a service raised.
C18_NoOrphanedFiles == Orphans(files, conversations) = {}

\* C18 amended: there is no orphaned file initially, and a request adds none,
\* except that a process request in which transcription, the LLM or
\* text-to-speech raised orphans the input file it wrote.
C18_OrphansOnlyFromFailedRequests ==
    /\ Orphans(files, conversations) = {}
    /\ [][Orphans(files', conversations') \subseteq
              Orphans(files, conversations)
                  \cup (IF response'.op = "process" /\ response'.status = 500
                        THEN {input_path(now')} ELSE {})]_vars

\* C18 witness: a request in which the LLM raised left its input file, while
\* the window holds a turn whose files are on disk too.
C18_Witness ==
    /\ response.op = "process" /\ response.status = 500
    /\ response.calls = <<"transcribe", "llm">>
    /\ Len(conversations) = 1
    /\ Orphans(files, conversations) = {input_path(now)}
    /\ WindowPaths(conversations) \subseteq files

\* C19: every turn in the window has its input audio file and its output
\* audio file on disk.
C19_WindowFilesPresent == WindowPaths(conversations) \subseteq files
====
